---- MODULE Spec2Model ----
(***************************************************************************)
(* The reference-context retrieval pipeline of src/app.py: the document    *)
(* normalizer (read_uploaded_file_to_text), the chunker (chunk_text), the  *)
(* relevance scorer (score_chunk) and the context assembler                *)
(* (build_fedex_context_from_uploads).                                     *)
(*                                                                         *)
(* Python str values are TLA+ strings, handled character by character      *)
(* with Len, SubSeq and \o.  Python floats that are multiples of 0.5 are   *)
(* integers counted in halves (1.0 is 2, 3.0 is 6, 0.5 is 1).              *)
(***************************************************************************)
EXTENDS Integers, Sequences, FiniteSets, TLC

VARIABLES
    call,        \* the function invoked: "chunk_text", "score_chunk", "build"
    pc,          \* "start", "while" (inside chunk_text's loop), "done"
    HAS_PDF,     \* module global set by the import at lines 9-13
    text, chunk_size, overlap,      \* chunk_text's parameters
    words, chunks, i,               \* chunk_text's locals
    chunk, query, score,            \* score_chunk's parameters and result
    uploads, user_input, top_k,     \* build_fedex_context_from_uploads' parameters
    all_chunks, ranked, picked,     \* its locals
    context,                        \* its return value
    raised                          \* TRUE when the call ended in an exception

vars == <<call, pc, HAS_PDF, text, chunk_size, overlap, words, chunks, i,
          chunk, query, score, uploads, user_input, top_k, all_chunks,
          ranked, picked, context, raised>>

ctVars == <<text, chunk_size, overlap, words, chunks, i>>
scVars == <<chunk, query, score>>
bdVars == <<uploads, user_input, top_k, all_chunks, ranked, picked, context>>

(***************************************************************************)
(* Bounds of the model.                                                    *)
(***************************************************************************)
MaxWords == 5
MaxChunkSize == 4
MaxNegative == 1
MaxUploads == 2
MaxTopK == 3

(***************************************************************************)
(* Python built-ins on str and list.                                       *)
(***************************************************************************)
Max(a, b) == IF a >= b THEN a ELSE b

Min(a, b) == IF a <= b THEN a ELSE b

\* F(v), with v evaluated once however often F uses it
Eval(v, F(_)) == CHOOSE r \in {F(x) : x \in {v}} : TRUE

CharAt(s, k) == SubSeq(s, k, k)

CharsOf(s) == {CharAt(s, k) : k \in 1..Len(s)}

\* str.isspace for the characters of the model's alphabet
IsSpace(ch) == ch \in {" ", "\n", "\t", "\r"}

UpperCase == "ABCDEFGHIJKLMNOPQRSTUVWXYZ"

LowerCase == "abcdefghijklmnopqrstuvwxyz"

Digits == "0123456789"

UpperChars == CharsOf(UpperCase)

LowerOfChar == [ch \in UpperChars |->
                  CharAt(LowerCase, CHOOSE k \in 1..26 : CharAt(UpperCase, k) = ch)]

RECURSIVE LowerRange(_, _, _)
LowerRange(s, lo, hi) ==
    IF lo > hi THEN ""
    ELSE IF lo = hi
         THEN (IF CharAt(s, lo) \in UpperChars THEN LowerOfChar[CharAt(s, lo)]
               ELSE CharAt(s, lo))
         ELSE LET mid == (lo + hi) \div 2
              IN LowerRange(s, lo, mid) \o LowerRange(s, mid + 1, hi)

\* str.lower()
lower(s) == LowerRange(s, 1, Len(s))

\* sub in s
Contains(sub, s) ==
    \E k \in 0..(Len(s) - Len(sub)) : SubSeq(s, k + 1, k + Len(sub)) = sub

\* s.endswith(suffix)
endswith(s, suffix) ==
    /\ Len(s) >= Len(suffix)
    /\ SubSeq(s, Len(s) - Len(suffix) + 1, Len(s)) = suffix

RECURSIVE lstrip(_)
lstrip(s) == IF s # "" /\ IsSpace(CharAt(s, 1)) THEN lstrip(SubSeq(s, 2, Len(s))) ELSE s

RECURSIVE rstrip(_)
rstrip(s) ==
    IF s # "" /\ IsSpace(CharAt(s, Len(s))) THEN rstrip(SubSeq(s, 1, Len(s) - 1)) ELSE s

\* str.strip()
strip(s) == rstrip(lstrip(s))

\* The maximal runs of non-whitespace characters of s[lo..hi], in order.  The
\* range is halved; a run that crosses the middle is glued back together.
RECURSIVE SplitRange(_, _, _)
SplitRange(s, lo, hi) ==
    IF lo > hi THEN <<>>
    ELSE IF lo = hi
         THEN (IF IsSpace(CharAt(s, lo)) THEN <<>> ELSE <<CharAt(s, lo)>>)
         ELSE LET mid == (lo + hi) \div 2
                  l == SplitRange(s, lo, mid)
                  r == SplitRange(s, mid + 1, hi)
              IN IF ~IsSpace(CharAt(s, mid)) /\ ~IsSpace(CharAt(s, mid + 1))
                 THEN SubSeq(l, 1, Len(l) - 1) \o <<l[Len(l)] \o r[1]>> \o Tail(r)
                 ELSE l \o r

\* str.split() with no argument
split(s) == SplitRange(s, 1, Len(s))

RECURSIVE JoinRange(_, _, _, _)
JoinRange(sep, seq, lo, hi) ==
    IF lo > hi THEN ""
    ELSE IF lo = hi THEN seq[lo]
         ELSE LET mid == (lo + hi) \div 2
              IN JoinRange(sep, seq, lo, mid) \o sep \o JoinRange(sep, seq, mid + 1, hi)

\* sep.join(seq)
join(sep, seq) == JoinRange(sep, seq, 1, Len(seq))

\* A slice bound as list slicing normalises it: a negative bound counts from
\* the end, and every bound is clamped to 0..len.
SliceBound(n, b) == IF b < 0 THEN Max(n + b, 0) ELSE Min(b, n)

\* seq[start:stop], 0-based as in Python
PySlice(seq, start, stop) ==
    LET a == SliceBound(Len(seq), start)
        b == SliceBound(Len(seq), stop)
    IN IF a >= b THEN <<>> ELSE SubSeq(seq, a + 1, b)

(***************************************************************************)
(* chunk_text, lines 93-101.                                               *)
(***************************************************************************)
WindowShort(ws, k, size) == join(" ", PySlice(ws, k, k + size - 1))

\* line 98: " ".join(words[i : i + chunk_size])
WindowAt(ws, k, size) == join(" ", PySlice(ws, k, k + size))

AdvanceNoOverlap(k, size, ov) == k + Max(1, size)

AdvanceNoFloor(k, size, ov) == k + (size - ov)

\* line 100: i += max(1, chunk_size - overlap)
Advance(k, size, ov) == k + Max(1, size - ov)

RECURSIVE ChunkLoop(_, _, _, _, _)
ChunkLoop(ws, k, acc, size, ov) ==
    IF k < Len(ws)
    THEN ChunkLoop(ws, Advance(k, size, ov), Append(acc, WindowAt(ws, k, size)), size, ov)
    ELSE acc

\* chunk_text(text, chunk_size, overlap) as a value
chunk_text(t, size, ov) == ChunkLoop(split(t), 0, <<>>, size, ov)

\* the defaults of chunk_text's parameters, line 93
DefaultChunkSize == 900

DefaultOverlap == 120

(***************************************************************************)
(* Inputs of chunk_text: texts of n distinct words w1 .. wn, laid out with *)
(* single spaces or with a mix of whitespace around and between them.      *)
(***************************************************************************)
WordNo(k) == "w" \o ToString(k)

RECURSIVE TextOf(_, _)
TextOf(n, messy) ==
    IF n = 0 THEN (IF messy THEN " \n" ELSE "")
    ELSE IF n = 1 THEN (IF messy THEN "\t" \o WordNo(1) ELSE WordNo(1))
         ELSE TextOf(n - 1, messy)
              \o (IF messy /\ n % 2 = 0 THEN "\n  " ELSE " ")
              \o WordNo(n)
              \o (IF messy /\ n % 2 = 1 THEN " " ELSE "")

ChunkTexts == {TextOf(n, m) : n \in 0..MaxWords, m \in BOOLEAN}

ChunkSizes == (0 - MaxNegative)..MaxChunkSize

InitChunk ==
    /\ call = "chunk_text"
    /\ pc = "start"
    /\ HAS_PDF = TRUE
    /\ text \in ChunkTexts
    /\ chunk_size \in ChunkSizes
    /\ overlap \in ChunkSizes
    /\ words = <<>> /\ chunks = <<>> /\ i = 0
    /\ chunk = "" /\ query = "" /\ score = 0
    /\ uploads = <<>> /\ user_input = "" /\ top_k = 0
    /\ all_chunks = <<>> /\ ranked = <<>> /\ picked = <<>> /\ context = ""
    /\ raised = FALSE

\* lines 94-96: words = text.split(); chunks = []; i = 0
ChunkEnter ==
    /\ call = "chunk_text" /\ pc = "start"
    /\ words' = split(text)
    /\ chunks' = <<>>
    /\ i' = 0
    /\ pc' = "while"
    /\ UNCHANGED <<call, HAS_PDF, text, chunk_size, overlap, scVars, bdVars, raised>>

\* lines 97-100: one iteration of the while loop
ChunkIterate ==
    /\ call = "chunk_text" /\ pc = "while"
    /\ i < Len(words)
    /\ chunks' = Append(chunks, WindowAt(words, i, chunk_size))
    /\ i' = Advance(i, chunk_size, overlap)
    /\ UNCHANGED <<call, pc, HAS_PDF, text, chunk_size, overlap, words, scVars,
                   bdVars, raised>>

\* lines 97 and 101: the loop condition fails, return chunks
ChunkReturn ==
    /\ call = "chunk_text" /\ pc = "while"
    /\ ~(i < Len(words))
    /\ pc' = "done"
    /\ UNCHANGED <<call, HAS_PDF, ctVars, scVars, bdVars, raised>>

NextChunk == ChunkEnter \/ ChunkIterate \/ ChunkReturn

\* chunk_text runs on one thread that is never suspended: a step that can be
\* taken is taken.
ChunkSpec == InitChunk /\ [][NextChunk]_vars /\ WF_vars(NextChunk)

(***************************************************************************)
(* Properties of chunk_text.                                               *)
(***************************************************************************)
Returned == call = "chunk_text" /\ pc = "done"

\* chunkSize > 0 and 0 <= overlap < chunkSize
ValidParams == chunk_size > 0 /\ 0 <= overlap /\ overlap < chunk_size

\* From each chunk, the words that no earlier chunk covered, chunk number k
\* (from 1) taken to start at word index (k - 1) * step; all of them in order.
RECURSIVE DistinctSpans(_, _, _, _, _)
DistinctSpans(chs, k, step, covered, acc) ==
    IF k > Len(chs) THEN acc
    ELSE LET ws == split(chs[k])
             start == (k - 1) * step
             skip == Max(covered - start, 0)
         IN DistinctSpans(chs, k + 1, step, Max(covered, start + Len(ws)),
                          acc \o SubSeq(ws, skip + 1, Len(ws)))

\* C1: for valid (chunkSize, overlap), the words of each returned chunk that
\* earlier chunks did not cover, concatenated in order, are exactly the
\* whitespace-split words of the text: none lost, duplicated or reordered.
C1_Reconstructs ==
    (Returned /\ ValidParams) =>
        DistinctSpans(chunks, 1, chunk_size - overlap, 0, <<>>) = split(text)

C1_Witness ==
    /\ Returned /\ ValidParams
    /\ overlap > 0
    /\ Len(chunks) >= 3
    /\ Len(split(text)) >= 4
    /\ text # join(" ", split(text))

\* C2 as stated, read in its favour (an empty text is one without words, and
\* the one-chunk rule speaks of texts that have words): zero chunks iff the
\* text is empty, and one chunk iff wordCount <= chunkSize.
C2_AsStated ==
    (Returned /\ ValidParams) =>
        LET n == Len(split(text))
        IN /\ (Len(chunks) = 0) <=> (n = 0)
           /\ n >= 1 => ((Len(chunks) = 1) <=> (n <= chunk_size))

\* C2 (amended): zero chunks iff the text has no words; one chunk iff
\* 1 <= wordCount <= chunkSize - overlap; a text of 1..chunkSize words has all
\* its words, joined by single spaces, as its first chunk.
C2_ChunkCount ==
    (Returned /\ ValidParams) =>
        LET n == Len(split(text))
        IN /\ (Len(chunks) = 0) <=> (n = 0)
           /\ (Len(chunks) = 1) <=> (1 <= n /\ n <= chunk_size - overlap)
           /\ (1 <= n /\ n <= chunk_size) => chunks[1] = join(" ", split(text))

C2_Witness ==
    /\ Returned /\ ValidParams
    /\ Len(split(text)) <= chunk_size
    /\ Len(split(text)) > chunk_size - overlap
    /\ Len(chunks) = 2

\* C9: chunk_text terminates for every pair of integers (chunkSize, overlap):
\* every iteration adds one chunk and moves the start index forward by
\* max(1, chunkSize - overlap) >= 1, the loop is left after at most wordCount
\* iterations (exactly wordCount when overlap >= chunkSize), and the call returns.
C9_Terminates ==
    /\ [][(pc = "while" /\ pc' = "while") =>
            /\ i' = i + Max(1, chunk_size - overlap)
            /\ i' >= i + 1
            /\ Len(chunks') = Len(chunks) + 1]_vars
    /\ [](pc \in {"while", "done"} =>
            /\ i = Len(chunks) * Max(1, chunk_size - overlap)
            /\ Len(chunks) <= Len(words)
            /\ (pc = "done" /\ overlap >= chunk_size) => Len(chunks) = Len(words))
    /\ <>(pc = "done")

C9_Witness ==
    /\ Returned
    /\ overlap >= chunk_size
    /\ chunk_size <= 0
    /\ Len(words) >= 3
    /\ Len(chunks) = Len(words)

\* C10 as stated: every window but the last one has exactly chunkSize words.
C10_AsStated ==
    (Returned /\ ValidParams) =>
        \A k \in 1..Len(chunks) :
            k < Len(chunks) => Len(split(chunks[k])) = chunk_size

\* C10 (amended): window k (from 0) starts at word index k * step, step =
\* chunkSize - overlap, for every k * step < wordCount, and holds the
\* min(chunkSize, wordCount - k * step) words from there joined by single
\* spaces; a window has fewer than chunkSize words exactly when it starts
\* after wordCount - chunkSize, so every window behind a short one is short.
C10_Windows ==
    (Returned /\ ValidParams) =>
        LET ws == split(text)
            n == Len(ws)
            step == chunk_size - overlap
        IN /\ Len(chunks) * step >= n
           /\ (Len(chunks) - 1) * step < n \/ n = 0
           /\ \A k \in 1..Len(chunks) :
                LET start == (k - 1) * step
                    size == Min(chunk_size, n - start)
                IN /\ chunks[k] = join(" ", SubSeq(ws, start + 1, start + size))
                   /\ Len(split(chunks[k])) = size
                   /\ (size < chunk_size) <=> (start > n - chunk_size)

C10_Witness ==
    /\ Returned /\ ValidParams
    /\ Len(chunks) >= 3
    /\ Len(split(chunks[Len(chunks) - 1])) < chunk_size
    /\ Len(split(chunks[1])) = chunk_size

(***************************************************************************)
(* score_chunk, lines 104-127.  Scores are counted in halves.              *)
(***************************************************************************)
\* the character class [a-zA-Z0-9_/-] of line 111
TokenChars == CharsOf(UpperCase \o LowerCase \o Digits \o "_/-")

IsTokenChar(s, k) == k >= 1 /\ k <= Len(s) /\ CharAt(s, k) \in TokenChars

\* the last index of the run of token characters that holds index k
RECURSIVE RunEnd(_, _)
RunEnd(s, k) == IF IsTokenChar(s, k + 1) THEN RunEnd(s, k + 1) ELSE k

\* set(re.findall(r"[a-zA-Z0-9_/-]{3,}", s)): the scan matches greedily from the
\* left, so the matches are the maximal runs of at least three token characters
findall_tokens(s) ==
    {SubSeq(s, a, RunEnd(s, a)) :
        a \in {k \in 1..Len(s) : /\ IsTokenChar(s, k)
                                 /\ ~IsTokenChar(s, k - 1)
                                 /\ RunEnd(s, k) - k + 1 >= 3}}

\* lines 115-120
boosts ==
    << "oauth", "client_credentials", "bearer", "token", "authorization",
       "ship", "shipment", "label", "tracking", "accountnumber",
       "meter", "serviceType", "packagingType", "requestedShipment",
       "/ship/v1", "/shipments", "rate limit", "429" >>

\* lines 112-113: score += 1.0 for every query term found in the chunk
TermScore(c, q) == 2 * Cardinality({term \in findall_tokens(q) : Contains(term, c)})

BoostGainElse(b, c, q) ==
    IF Contains(b, c) /\ Contains(b, q) THEN 6 ELSE 1

\* lines 122-125: what boost term b adds for lower-cased chunk c and query q
BoostGain(b, c, q) ==
    IF Contains(b, c) /\ Contains(b, q) THEN 6
    ELSE IF Contains(b, c) THEN 1
    ELSE 0

\* lines 121-125: the loop over boosts, from index k on
RECURSIVE BoostScore(_, _, _)
BoostScore(c, q, k) ==
    IF k > Len(boosts) THEN 0
    ELSE BoostGain(boosts[k], c, q) + BoostScore(c, q, k + 1)

score_chunk(ch, qu) ==
    LET q == lower(qu)
        c == lower(ch)
    IN TermScore(c, q) + BoostScore(c, q, 1)

(***************************************************************************)
(* Inputs of score_chunk: every boost term as listed and lower-cased,      *)
(* alone and inside a sentence, and texts without any boost term.          *)
(***************************************************************************)
BoostTerms == {boosts[k] : k \in 1..Len(boosts)}

Fragments ==
    BoostTerms \cup {lower(b) : b \in BoostTerms}
               \cup {"", "xy", "hello-world", "Invoice_No 12", "OAuth TOKEN"}

ScoreChunks == Fragments \cup {"See the " \o f \o " field." : f \in Fragments}

ScoreQueries == Fragments \cup {"<soap:Body><ServiceType>ship</ServiceType></soap:Body>"}

InitScore ==
    /\ call = "score_chunk"
    /\ pc = "start"
    /\ HAS_PDF = TRUE
    /\ chunk \in ScoreChunks
    /\ query \in ScoreQueries
    /\ score = 0
    /\ text = "" /\ chunk_size = DefaultChunkSize /\ overlap = DefaultOverlap
    /\ words = <<>> /\ chunks = <<>> /\ i = 0
    /\ uploads = <<>> /\ user_input = "" /\ top_k = 0
    /\ all_chunks = <<>> /\ ranked = <<>> /\ picked = <<>> /\ context = ""
    /\ raised = FALSE

\* lines 104-127, the whole call
ScoreCall ==
    /\ call = "score_chunk" /\ pc = "start"
    /\ score' = score_chunk(chunk, query)
    /\ pc' = "done"
    /\ UNCHANGED <<call, HAS_PDF, ctVars, chunk, query, bdVars, raised>>

(***************************************************************************)
(* Properties of score_chunk.                                              *)
(***************************************************************************)
Scored == call = "score_chunk" /\ pc = "done"

\* the number of boost-list entries k for which P(k) holds
BoostCount(P(_)) == Cardinality({k \in 1..Len(boosts) : P(k)})

\* C5: every term of the boost list, whatever its spelling in the list, adds
\* 3.0 when it appears in the lower-cased chunk and the lower-cased query,
\* 0.5 when it appears in the chunk only, and nothing otherwise (on top of
\* 1.0 for every query term of lines 111-113 found in the chunk).
C5_AsStated ==
    Scored =>
        LET c == lower(chunk)
            q == lower(query)
            InBoth(k) == Contains(lower(boosts[k]), c) /\ Contains(lower(boosts[k]), q)
            InChunkOnly(k) == Contains(lower(boosts[k]), c) /\ ~Contains(lower(boosts[k]), q)
        IN score = TermScore(c, q) + 6 * BoostCount(InBoth) + BoostCount(InChunkOnly)

\* C6: the score is never negative; against the empty query it is 0.5 for
\* every boost-list entry found in the lower-cased chunk and nothing else, so
\* it is above 0 only if the chunk holds a boost term, and it is 0 for a
\* chunk that holds no boost term in any letter case.
C6_NonNegative ==
    Scored =>
        LET c == lower(chunk)
            Found(k) == Contains(boosts[k], c)
            FoundAnyCase(k) == Contains(lower(boosts[k]), c)
        IN /\ score >= 0
           /\ query = "" =>
                /\ score = BoostCount(Found)
                /\ score > 0 => BoostCount(FoundAnyCase) > 0
                /\ BoostCount(FoundAnyCase) = 0 => score = 0

C6_Witness ==
    /\ Scored
    /\ query = ""
    /\ score = 0
    /\ chunk = "See the hello-world field."

C6_WitnessBoosted ==
    /\ Scored
    /\ query = ""
    /\ score = 2
    /\ chunk = "See the /ship/v1 field."

(***************************************************************************)
(* Calls that may raise return Ret(value) or Raise(message).               *)
(***************************************************************************)
Ret(v) == [raised |-> FALSE, value |-> v]

Raise(e) == [raised |-> TRUE, value |-> e]

RECURSIVE Rep(_, _)
Rep(s, n) ==
    IF n <= 0 THEN ""
    ELSE IF n = 1 THEN s
         ELSE Rep(s, n \div 2) \o Rep(s, n - (n \div 2))

(***************************************************************************)
(* json.loads and json.dumps(obj, indent=2), lines 85-86, for documents    *)
(* made of objects, arrays, strings without escapes, integers and the      *)
(* literals true, false and null.  A parsed value is an atom (with the     *)
(* text json.dumps prints for it), an array or an object.                  *)
(***************************************************************************)
JsonWs == {" ", "\t", "\n", "\r"}

DigitChars == CharsOf(Digits)

Atom(t) == [t |-> "atom", s |-> t, items |-> <<>>, keys |-> <<>>]

Arr(vs) == [t |-> "arr", s |-> "", items |-> vs, keys |-> <<>>]

Obj(ks, vs) == [t |-> "obj", s |-> "", items |-> vs, keys |-> ks]

Is(s, p, ch) == p >= 1 /\ p <= Len(s) /\ CharAt(s, p) = ch

StartsAt(s, p, lit) == p + Len(lit) - 1 <= Len(s) /\ SubSeq(s, p, p + Len(lit) - 1) = lit

RECURSIVE SkipWs(_, _)
SkipWs(s, p) == IF p <= Len(s) /\ CharAt(s, p) \in JsonWs THEN SkipWs(s, p + 1) ELSE p

\* the index of the quote that closes the string whose text starts at p, or 0
RECURSIVE ScanString(_, _)
ScanString(s, p) ==
    IF p > Len(s) THEN 0
    ELSE IF CharAt(s, p) = "\"" THEN p
         ELSE IF CharAt(s, p) \in {"\\", "\n", "\t", "\r"} THEN 0
              ELSE ScanString(s, p + 1)

\* the index behind the digits that start at p
RECURSIVE ScanDigits(_, _)
ScanDigits(s, p) ==
    IF p <= Len(s) /\ CharAt(s, p) \in DigitChars THEN ScanDigits(s, p + 1) ELSE p

\* dict assignment: a key seen before keeps its place and takes the new value
PutMember(o, k, v) ==
    IF \E j \in 1..Len(o.keys) : o.keys[j] = k
    THEN Obj(o.keys, [o.items EXCEPT ![CHOOSE j \in 1..Len(o.keys) : o.keys[j] = k] = v])
    ELSE Obj(Append(o.keys, k), Append(o.items, v))

\* The parser's state: mode "value" (a value starts at p), "key" (a member's
\* key starts at p), "reduce" (value val ended before p), "end" or "fail";
\* stack holds the open containers, each with the key that waits for a value.
PState(m, p, st, v) == [mode |-> m, p |-> p, stack |-> st, val |-> v]

Failed == PState("fail", 0, <<>>, Atom(""))

Frame(c, k) == [c |-> c, key |-> k]

\* an integer: an optional minus sign, then 0 or digits that do not start with 0
NumberAt(s, st, d) ==
    IF d > Len(s) \/ CharAt(s, d) \notin DigitChars THEN Failed
    ELSE LET e == IF CharAt(s, d) = "0" THEN d + 1 ELSE ScanDigits(s, d)
             t == SubSeq(s, st.p, e - 1)
         IN IF Is(s, e, ".") \/ Is(s, e, "e") \/ Is(s, e, "E") THEN Failed
            ELSE PState("reduce", e, st.stack, Atom(IF t = "-0" THEN "0" ELSE t))

StringAt(s, st, e) ==
    IF e = 0 THEN Failed ELSE PState("reduce", e + 1, st.stack, Atom(SubSeq(s, st.p, e)))

\* behind an opening bracket or brace: the empty container, or its first member
Opened(s, st, n, c, close, m) ==
    IF Is(s, n, close) THEN PState("reduce", n + 1, st.stack, c)
    ELSE PState(m, n, Append(st.stack, Frame(c, "")), c)

ValueAt(s, st) ==
    IF st.p > Len(s) THEN Failed
    ELSE IF Is(s, st.p, "\"") THEN StringAt(s, st, ScanString(s, st.p + 1))
    ELSE IF Is(s, st.p, "[") THEN Opened(s, st, SkipWs(s, st.p + 1), Arr(<<>>), "]", "value")
    ELSE IF Is(s, st.p, "{")
         THEN Opened(s, st, SkipWs(s, st.p + 1), Obj(<<>>, <<>>), "}", "key")
    ELSE IF StartsAt(s, st.p, "true") THEN PState("reduce", st.p + 4, st.stack, Atom("true"))
    ELSE IF StartsAt(s, st.p, "false") THEN PState("reduce", st.p + 5, st.stack, Atom("false"))
    ELSE IF StartsAt(s, st.p, "null") THEN PState("reduce", st.p + 4, st.stack, Atom("null"))
    ELSE NumberAt(s, st, IF Is(s, st.p, "-") THEN st.p + 1 ELSE st.p)

\* a member's key, the colon behind it, and then its value
KeyEnds(s, st, e) ==
    IF e = 0 \/ ~Is(s, SkipWs(s, e + 1), ":") THEN Failed
    ELSE PState("value", SkipWs(s, SkipWs(s, e + 1) + 1),
                [st.stack EXCEPT ![Len(st.stack)].key = SubSeq(s, st.p + 1, e - 1)], st.val)

KeyAt(s, st) ==
    IF ~Is(s, st.p, "\"") THEN Failed ELSE KeyEnds(s, st, ScanString(s, st.p + 1))

\* container c has taken the value that just ended; e is behind the whitespace
Taken(s, st, c, e) ==
    IF Is(s, e, ",")
    THEN PState(IF c.t = "arr" THEN "value" ELSE "key", SkipWs(s, e + 1),
                [st.stack EXCEPT ![Len(st.stack)].c = c], c)
    ELSE IF Is(s, e, IF c.t = "arr" THEN "]" ELSE "}")
         THEN PState("reduce", e + 1, SubSeq(st.stack, 1, Len(st.stack) - 1), c)
         ELSE Failed

\* a value has ended: it is the document, or goes into the innermost container
Reduce(s, st) ==
    IF st.stack = <<>> THEN PState("end", st.p, <<>>, st.val)
    ELSE Taken(s, st,
               IF st.stack[Len(st.stack)].c.t = "arr"
               THEN Arr(Append(st.stack[Len(st.stack)].c.items, st.val))
               ELSE PutMember(st.stack[Len(st.stack)].c, st.stack[Len(st.stack)].key, st.val),
               SkipWs(s, st.p))

\* one step of the parser
ParserStep(s, st) ==
    IF st.mode = "value" THEN ValueAt(s, st)
    ELSE IF st.mode = "key" THEN KeyAt(s, st)
    ELSE Reduce(s, st)

RECURSIVE RunParser(_, _)
RunParser(s, st) ==
    IF st.mode \in {"end", "fail"} THEN st
    ELSE Eval(ParserStep(s, st), LAMBDA nxt : RunParser(s, nxt))

Decoded(s, st) ==
    IF st.mode = "end" /\ SkipWs(s, st.p) = Len(s) + 1 THEN Ret(st.val)
    ELSE Raise("JSONDecodeError")

\* json.loads(text): one value, whitespace around it, nothing else
json_loads(s) == Decoded(s, RunParser(s, PState("value", SkipWs(s, 1), <<>>, Atom(""))))

NewLine(indent, level) == "\n" \o Rep(" ", indent * level)

RECURSIVE Dump(_, _, _)
RECURSIVE DumpAll(_, _, _, _, _)

\* the printed members of v at the given level, from index k on
DumpAll(v, indent, level, k, acc) ==
    IF k > Len(v.items) THEN acc
    ELSE DumpAll(v, indent, level, k + 1,
                 Append(acc, (IF v.t = "obj" THEN "\"" \o v.keys[k] \o "\": " ELSE "")
                             \o Dump(v.items[k], indent, level)))

Dump(v, indent, level) ==
    IF v.t = "atom" THEN v.s
    ELSE LET open == IF v.t = "obj" THEN "{" ELSE "["
             close == IF v.t = "obj" THEN "}" ELSE "]"
         IN IF v.items = <<>> THEN open \o close
            ELSE open \o NewLine(indent, level + 1)
                 \o join("," \o NewLine(indent, level + 1),
                         DumpAll(v, indent, level + 1, 1, <<>>))
                 \o NewLine(indent, level) \o close

\* json.dumps(obj, indent=indent)
json_dumps(v, indent) == Dump(v, indent, 0)

(***************************************************************************)
(* _read_pdf_bytes_to_text and read_uploaded_file_to_text, lines 46-90.    *)
(* An upload is [name, raw, pdf]: raw is the file's bytes, in which the    *)
(* character InvalidByte stands for a byte that is no valid UTF-8; pdf is  *)
(* what pypdf makes of these bytes: [raises, error, pages], pages being    *)
(* the value of extract_text() for each page ("" also for None).           *)
(***************************************************************************)
InvalidByte == "#"

RECURSIVE DecodeRange(_, _, _)
DecodeRange(raw, lo, hi) ==
    IF lo > hi THEN ""
    ELSE IF lo = hi THEN (IF CharAt(raw, lo) = InvalidByte THEN "" ELSE CharAt(raw, lo))
         ELSE LET mid == (lo + hi) \div 2
              IN DecodeRange(raw, lo, mid) \o DecodeRange(raw, mid + 1, hi)

\* raw.decode("utf-8", errors="ignore"): invalid bytes are dropped, nothing raises
decode_ignore(raw) == Ret(DecodeRange(raw, 1, Len(raw)))

\* PdfReader(file_bytes) and the page.extract_text() calls, lines 50-53
PdfReader(up) == IF up.pdf.raises THEN Raise(up.pdf.error) ELSE Ret(up.pdf.pages)

NoPypdfText ==
    "[PDF upload received, but pypdf is not installed. Install pypdf to parse PDFs.]"

\* lines 51-55: the blocks of the pages whose text is not blank, from page k on
RECURSIVE PageBlocks(_, _, _)
PageBlocks(pages, k, out) ==
    IF k > Len(pages) THEN out
    ELSE PageBlocks(pages, k + 1,
                    IF strip(pages[k]) # ""
                    THEN Append(out, "\n\n--- PDF PAGE " \o ToString(k) \o " ---\n" \o pages[k])
                    ELSE out)

read_pdf_no_except(has_pdf, up) ==
    IF ~has_pdf THEN Ret(NoPypdfText)
    ELSE LET r == PdfReader(up)
         IN IF r.raised THEN r
            ELSE Ret(strip(join("\n", PageBlocks(r.value, 1, <<>>))))

\* lines 46-58
_read_pdf_bytes_to_text(has_pdf, up) ==
    IF ~has_pdf THEN Ret(NoPypdfText)
    ELSE LET r == PdfReader(up)
         IN IF r.raised THEN Ret("[Failed to parse PDF: " \o r.value \o "]")
            ELSE Ret(strip(join("\n", PageBlocks(r.value, 1, <<>>))))

\* lines 83-88: pretty-print the text if it is JSON, else keep it
json_or_text(t) ==
    LET obj == json_loads(t)
    IN IF obj.raised THEN Ret(t) ELSE Ret(json_dumps(obj.value, 2))

\* lines 61-90
read_uploaded_file_to_text(has_pdf, up) ==
    LET name == lower(up.name)
    IN IF endswith(name, ".pdf") THEN _read_pdf_bytes_to_text(has_pdf, up)
       ELSE LET d == decode_ignore(up.raw)
            IN IF d.raised THEN Ret("[Could not decode " \o up.name \o " as text.]")
               ELSE IF endswith(name, ".json") THEN json_or_text(d.value)
                    ELSE Ret(d.value)

(***************************************************************************)
(* The documents of the model, and the queries.                            *)
(***************************************************************************)
NotAPdf == [raises |-> TRUE, error |-> "EOF marker not found", pages |-> <<>>]

TextFile(n, r) == [name |-> n, raw |-> r, pdf |-> NotAPdf]

PdfFile(n, ps) == [name |-> n, raw |-> "%PDF-1.4", pdf |-> [raises |-> FALSE, error |-> "", pages |-> ps]]

GuideTxt ==
    TextFile("guide.txt",
             "Use POST /ship/v1 to create a shipment. Track via GET /shipments/{id}.")

BlankMd == TextFile("blank.md", " \n#\t ")

SpecJson ==
    TextFile("Spec.JSON", "{\"token\": [1, -0], \"auth\": {}, \"token\": [\"Bearer\", true]}\n")

BrokenJson == TextFile("broken.json", "{\"label\":  #tracking,}")

\* 902 words: more than one window of DefaultChunkSize words
BigTxt == TextFile("big.txt", Rep("x ", DefaultChunkSize) \o "oauth Bearer")

\* 800 words: fewer than DefaultChunkSize, more than DefaultChunkSize - DefaultOverlap
MidTxt == TextFile("mid.txt", Rep("y\n", 799) \o "meter")

ManualPdf == [name |-> "Manual.PDF", raw |-> "%PDF-1.7", pdf |-> NotAPdf]

ScanPdf == PdfFile("scan.pdf", <<"Rate Limit: 429", "", " \n", "label\n">>)

EmptyPdf == PdfFile("empty.pdf", <<"", "\t">>)

LibraryDocs ==
    {GuideTxt, BlankMd, SpecJson, BrokenJson, BigTxt, MidTxt, ManualPdf, ScanPdf, EmptyPdf}

Queries ==
    {"", "Need an OAuth token to create a Shipment and print the label via /ship/v1"}

(***************************************************************************)
(* build_fedex_context_from_uploads, lines 130-155.  The three calls it    *)
(* makes per document and per chunk are evaluated once for every document, *)
(* text and chunk of the model and looked up from then on.                 *)
(***************************************************************************)
ReadMemo == [h \in BOOLEAN, d \in LibraryDocs |-> read_uploaded_file_to_text(h, d)]

\* line 143: read_uploaded_file_to_text(up)
ReadCall(has_pdf, up) == ReadMemo[has_pdf, up]

KnownTexts == {ReadMemo[h, d].value : h \in BOOLEAN, d \in LibraryDocs}

ChunkMemo == [t \in KnownTexts |-> chunk_text(t, DefaultChunkSize, DefaultOverlap)]

\* line 146: chunk_text(text), with the default chunk_size and overlap
ChunkCall(t) == ChunkMemo[t]

KnownChunks == UNION {{chs[k] : k \in 1..Len(chs)} : chs \in {ChunkMemo[t] : t \in DOMAIN ChunkMemo}}

ScoreMemo == [c \in KnownChunks, q \in Queries |-> score_chunk(c, q)]

\* line 149: the sort key, score_chunk(x[1], user_input)
KeyOf(x, q) == ScoreMemo[x[2], q]

\* line 147: the (up.name, ch) pairs of one document's chunks
RECURSIVE Labelled(_, _, _, _)
Labelled(name, chs, k, acc) ==
    IF k > Len(chs) THEN acc
    ELSE Labelled(name, chs, k + 1, Append(acc, <<name, chs[k]>>))

RECURSIVE CollectBreak(_, _, _, _)
CollectBreak(has_pdf, ups, k, acc) ==
    IF k > Len(ups) THEN Ret(acc)
    ELSE Eval(ReadCall(has_pdf, ups[k]), LAMBDA r :
              IF r.raised THEN r
              ELSE IF strip(r.value) = "" THEN Ret(acc)
                   ELSE CollectBreak(has_pdf, ups, k + 1,
                           acc \o Labelled(ups[k].name, ChunkCall(r.value), 1, <<>>)))

\* lines 141-147: the loop over uploads, from document k on
RECURSIVE Collect(_, _, _, _)
Collect(has_pdf, ups, k, acc) ==
    IF k > Len(ups) THEN Ret(acc)
    ELSE Eval(ReadCall(has_pdf, ups[k]), LAMBDA r :
              IF r.raised THEN r
              ELSE IF strip(r.value) = "" THEN Collect(has_pdf, ups, k + 1, acc)
                   ELSE Collect(has_pdf, ups, k + 1,
                           acc \o Labelled(ups[k].name, ChunkCall(r.value), 1, <<>>)))

\* sorted() computes the key of every item once
RECURSIVE Decorate(_, _, _, _)
Decorate(items, q, k, acc) ==
    IF k > Len(items) THEN acc
    ELSE Decorate(items, q, k + 1, Append(acc, [key |-> KeyOf(items[k], q), item |-> items[k]]))

InsertBeforeEqual(srt, e) ==
    LET p == Cardinality({j \in 1..Len(srt) : srt[j].key > e.key})
    IN SubSeq(srt, 1, p) \o <<e>> \o SubSeq(srt, p + 1, Len(srt))

\* sorted(..., reverse=True) is stable: an item goes behind every item placed
\* before it whose key is not smaller
InsertDesc(srt, e) ==
    LET p == Cardinality({j \in 1..Len(srt) : srt[j].key >= e.key})
    IN SubSeq(srt, 1, p) \o <<e>> \o SubSeq(srt, p + 1, Len(srt))

RECURSIVE SortDesc(_, _, _)
SortDesc(dec, k, acc) ==
    IF k > Len(dec) THEN acc
    ELSE Eval(InsertDesc(acc, dec[k]), LAMBDA nxt : SortDesc(dec, k + 1, nxt))

RECURSIVE Undecorate(_, _, _)
Undecorate(dec, k, acc) ==
    IF k > Len(dec) THEN acc ELSE Undecorate(dec, k + 1, Append(acc, dec[k].item))

\* line 149: sorted(all_chunks, key=lambda x: score_chunk(x[1], user_input), reverse=True)
sorted_by_score(items, q) ==
    Eval(Decorate(items, q, 1, <<>>), LAMBDA dec : Undecorate(SortDesc(dec, 1, <<>>), 1, <<>>))

PickOneMore(rk, k) == PySlice(rk, 0, k + 1)

\* line 150: ranked[:top_k]
Pick(rk, k) == PySlice(rk, 0, k)

Separator == "\n\n---\n\n"

\* lines 152-154: the rendered entries of picked, from entry k on
RECURSIVE Entries(_, _, _)
Entries(pk, k, out) ==
    IF k > Len(pk) THEN out
    ELSE Entries(pk, k + 1, Append(out, "[SOURCE FILE: " \o pk[k][1] \o "]\n" \o pk[k][2]))

\* lines 138-155: the locals and the return value of one call
\* lines 138-139
NoUploads ==
    [raised |-> FALSE, all_chunks |-> <<>>, ranked |-> <<>>, picked |-> <<>>, value |-> ""]

Failure(e) ==
    [raised |-> TRUE, all_chunks |-> <<>>, ranked |-> <<>>, picked |-> <<>>, value |-> e]

\* lines 152-155: the value returned, with the locals it was computed from
Rendered(all, rk, pk) ==
    [raised |-> FALSE, all_chunks |-> all, ranked |-> rk, picked |-> pk,
     value |-> join(Separator, Entries(pk, 1, <<>>))]

\* lines 138-155: the locals and the return value of one call
build_fedex_context_from_uploads(has_pdf, ups, q, k) ==
    IF ups = <<>> THEN NoUploads
    ELSE Eval(Collect(has_pdf, ups, 1, <<>>), LAMBDA col :
              IF col.raised THEN Failure(col.value)
              ELSE Eval(sorted_by_score(col.value, q), LAMBDA rk :
                        Rendered(col.value, rk, Pick(rk, k))))

UploadSeqs == UNION {[1..n -> LibraryDocs] : n \in 0..MaxUploads}

InitBuild ==
    /\ call = "build"
    /\ pc = "start"
    /\ HAS_PDF \in BOOLEAN
    /\ uploads \in UploadSeqs
    /\ user_input \in Queries
    /\ top_k \in 0..MaxTopK
    /\ all_chunks = <<>> /\ ranked = <<>> /\ picked = <<>> /\ context = ""
    /\ text = "" /\ chunk_size = DefaultChunkSize /\ overlap = DefaultOverlap
    /\ words = <<>> /\ chunks = <<>> /\ i = 0
    /\ chunk = "" /\ query = "" /\ score = 0
    /\ raised = FALSE

\* lines 130-155, the whole call
BuildCall ==
    /\ call = "build" /\ pc = "start"
    /\ \E r \in {build_fedex_context_from_uploads(HAS_PDF, uploads, user_input, top_k)} :
          /\ raised' = r.raised
          /\ all_chunks' = r.all_chunks
          /\ ranked' = r.ranked
          /\ picked' = r.picked
          /\ context' = IF r.raised THEN context ELSE r.value
    /\ pc' = "done"
    /\ UNCHANGED <<call, HAS_PDF, ctVars, scVars, uploads, user_input, top_k>>

(***************************************************************************)
(* Properties of build_fedex_context_from_uploads.  The pack is read back  *)
(* from the returned string: it is cut at every separator, and a section   *)
(* is the header "[SOURCE FILE: <name>]", a line break and the chunk.      *)
(***************************************************************************)
BuildDone == call = "build" /\ pc = "done"

SeparatorAt(s, p) ==
    /\ p + Len(Separator) - 1 <= Len(s)
    /\ SubSeq(s, p, p + Len(Separator) - 1) = Separator

RECURSIVE Sections(_, _, _)
Sections(s, from, cuts) ==
    LET rest == {p \in cuts : p >= from}
    IN IF rest = {} THEN <<SubSeq(s, from, Len(s))>>
       ELSE LET p == CHOOSE x \in rest : \A y \in rest : x <= y
            IN <<SubSeq(s, from, p - 1)>> \o Sections(s, p + Len(Separator), rest)

PackSections(s) ==
    IF s = "" THEN <<>> ELSE Sections(s, 1, {p \in 1..Len(s) : SeparatorAt(s, p)})

Header == "[SOURCE FILE: "

\* <<name, chunk>> of a section, <<>> for a section that is not an entry
EntryOf(sec) ==
    LET ends == {p \in (Len(Header) + 1)..(Len(sec) - 1) : SubSeq(sec, p, p + 1) = "]\n"}
    IN IF Len(sec) < Len(Header) \/ ends = {} THEN <<>>
       ELSE IF SubSeq(sec, 1, Len(Header)) # Header THEN <<>>
       ELSE LET p == CHOOSE x \in ends : \A y \in ends : x <= y
            IN <<SubSeq(sec, Len(Header) + 1, p - 1), SubSeq(sec, p + 2, Len(sec))>>

PackEntries(s) ==
    LET secs == PackSections(s) IN [k \in 1..Len(secs) |-> EntryOf(secs[k])]

\* the chunks produced from document d
ChunksOf(has_pdf, d) == ChunkCall(ReadCall(has_pdf, d).value)

\* the global list in (document input order, chunk ordinal order), from document k on
RECURSIVE InputOrder(_, _, _)
InputOrder(has_pdf, ups, k) ==
    IF k > Len(ups) THEN <<>>
    ELSE LET chs == ChunksOf(has_pdf, ups[k])
         IN [j \in 1..Len(chs) |-> <<ups[k].name, chs[j]>>] \o InputOrder(has_pdf, ups, k + 1)

\* the place of entry g of list G in the order (score descending, position ascending)
Rank(G, q, g) ==
    1 + Cardinality({h \in 1..Len(G) :
                        \/ KeyOf(G[h], q) > KeyOf(G[g], q)
                        \/ KeyOf(G[h], q) = KeyOf(G[g], q) /\ h < g})

\* C3: no uploads give the empty string; otherwise, for a count topK and
\* documents yielding N chunks in total, the pack has at most topK entries,
\* exactly min(topK, N), and every entry is "[SOURCE FILE: <name>]" followed by
\* a chunk produced from an uploaded document with exactly that name.
C3_PackSize ==
    BuildDone =>
        /\ ~raised
        /\ uploads = <<>> => context = ""
        /\ LET es == PackEntries(context)
               N == Len(InputOrder(HAS_PDF, uploads, 1))
           IN /\ Len(es) <= top_k
              /\ Len(es) = Min(top_k, N)
              /\ \A k \in 1..Len(es) :
                    /\ Len(es[k]) = 2
                    /\ \E d \in 1..Len(uploads) :
                          /\ uploads[d].name = es[k][1]
                          /\ \E j \in 1..Len(ChunksOf(HAS_PDF, uploads[d])) :
                                ChunksOf(HAS_PDF, uploads[d])[j] = es[k][2]

C3_Witness ==
    /\ BuildDone
    /\ Len(uploads) = 2
    /\ uploads[1].name # uploads[2].name
    /\ top_k >= 2
    /\ Len(InputOrder(HAS_PDF, uploads, 1)) > top_k
    /\ Len(PackEntries(context)) = top_k
    /\ \A d \in 1..2 : \E k \in 1..top_k : PackEntries(context)[k][1] = uploads[d].name

\* C4: the pack lists its chunks in non-increasing score order; its entries
\* are the best-placed chunks in the order (score descending, then document
\* input order and chunk ordinal), each at its place, so no chunk left out
\* scores higher than one in the pack, and of two chunks with equal score the
\* earlier one comes first and is the one kept when the pack is cut at topK.
C4_Ranking ==
    BuildDone =>
        /\ ~raised
        /\ LET es == PackEntries(context)
               G == InputOrder(HAS_PDF, uploads, 1)
           IN /\ \A a, b \in 1..Len(es) :
                    a < b => KeyOf(es[a], user_input) >= KeyOf(es[b], user_input)
              /\ \A g \in 1..Len(G) :
                    Rank(G, user_input, g) <= Len(es)
                        => es[Rank(G, user_input, g)] = G[g]
              /\ ranked # <<>> /\ top_k > 0 => es # <<>>

\* a tie cut by topK, and a later chunk placed before an earlier one
C4_Witness ==
    /\ BuildDone
    /\ LET G == InputOrder(HAS_PDF, uploads, 1)
           m == Len(PackEntries(context))
       IN /\ \E g, h \in 1..Len(G) :
                /\ g < h
                /\ KeyOf(G[g], user_input) = KeyOf(G[h], user_input)
                /\ G[g] # G[h]
                /\ Rank(G, user_input, g) <= m
                /\ Rank(G, user_input, h) > m
          /\ \E g, h \in 1..Len(G) :
                /\ g < h
                /\ Rank(G, user_input, h) < Rank(G, user_input, g)
                /\ Rank(G, user_input, g) <= m

IsJson(d) == endswith(lower(d.name), ".json") /\ ~endswith(lower(d.name), ".pdf")

IsPdf(d) == endswith(lower(d.name), ".pdf")

\* the JSON documents whose text does not parse
ParseFailures == {d \in LibraryDocs : IsJson(d) /\ json_loads(decode_ignore(d.raw).value).raised}

\* the PDF documents that cannot be extracted
PdfFailures(has_pdf) == {d \in LibraryDocs : IsPdf(d) /\ (~has_pdf \/ PdfReader(d).raised)}

\* what a document that cannot be parsed or extracted is read as
Degraded(has_pdf, d) ==
    IF d \in ParseFailures THEN decode_ignore(d.raw).value
    ELSE IF ~has_pdf THEN NoPypdfText
    ELSE "[Failed to parse PDF: " \o d.pdf.error \o "]"

Without(ups, d) == SubSeq(ups, 1, d - 1) \o SubSeq(ups, d + 1, Len(ups))

\* C7: the call returns whatever the documents are; a document whose JSON
\* does not parse is chunked from its decoded text as it is, a PDF that cannot
\* be extracted from its placeholder text (one chunk, the placeholder); these
\* chunks are ranked by score like all others and are in the pack when their
\* place is within topK; the chunks of the other documents are those of the
\* call without the bad document.
C7_NeverFails ==
    BuildDone =>
        /\ ~raised
        /\ \A d \in 1..Len(uploads) :
              uploads[d] \in ParseFailures \cup PdfFailures(HAS_PDF) =>
                 \E rest \in {build_fedex_context_from_uploads(
                                 HAS_PDF, Without(uploads, d), user_input, top_k)} :
                 \E chs \in {chunk_text(Degraded(HAS_PDF, uploads[d]),
                                        DefaultChunkSize, DefaultOverlap)} :
                 \E before \in {Len(InputOrder(HAS_PDF, SubSeq(uploads, 1, d - 1), 1))} :
                    /\ ~rest.raised
                    /\ IsPdf(uploads[d]) => chs = <<Degraded(HAS_PDF, uploads[d])>>
                    /\ all_chunks =
                          SubSeq(rest.all_chunks, 1, before)
                          \o [j \in 1..Len(chs) |-> <<uploads[d].name, chs[j]>>]
                          \o SubSeq(rest.all_chunks, before + 1, Len(rest.all_chunks))
                    /\ \A j \in 1..Len(chs) :
                          \E r \in {Rank(all_chunks, user_input, before + j)} :
                             /\ ranked[r] = <<uploads[d].name, chs[j]>>
                             /\ r <= top_k =>
                                   /\ Len(PackEntries(context)) >= r
                                   /\ PackEntries(context)[r] = <<uploads[d].name, chs[j]>>

\* a PDF that cannot be extracted ahead of a JSON document that does not
\* parse, both in the pack, the JSON document's chunk with the higher score
C7_Witness ==
    /\ BuildDone
    /\ ~raised
    /\ HAS_PDF
    /\ Len(uploads) = 2
    /\ uploads[1] \in PdfFailures(HAS_PDF)
    /\ uploads[2] \in ParseFailures
    /\ decode_ignore(uploads[2].raw).value # uploads[2].raw
    /\ PackEntries(context) =
          << <<uploads[2].name, join(" ", split(decode_ignore(uploads[2].raw).value))>>,
             <<uploads[1].name, "[Failed to parse PDF: " \o uploads[1].pdf.error \o "]">> >>

Blank(has_pdf, d) == strip(ReadCall(has_pdf, d).value) = ""

NonBlank(has_pdf, ups) == SelectSeq(ups, LAMBDA d : ~Blank(has_pdf, d))

\* C8: a document whose text is empty or whitespace-only contributes no
\* chunk: the global list and the pack are those of the call on the non-blank
\* documents alone, every entry of the pack bears the name of a non-blank
\* document, and when every document is blank the result is the empty string.
C8_BlankSkipped ==
    BuildDone =>
        /\ ~raised
        /\ \A d \in 1..Len(uploads) :
              Blank(HAS_PDF, uploads[d]) => ChunksOf(HAS_PDF, uploads[d]) = <<>>
        /\ \E r \in {build_fedex_context_from_uploads(
                        HAS_PDF, NonBlank(HAS_PDF, uploads), user_input, top_k)} :
              /\ all_chunks = r.all_chunks
              /\ context = r.value
        /\ \A k \in 1..Len(PackEntries(context)) :
              \E d \in 1..Len(uploads) :
                 /\ ~Blank(HAS_PDF, uploads[d])
                 /\ uploads[d].name = PackEntries(context)[k][1]
        /\ (\A d \in 1..Len(uploads) : Blank(HAS_PDF, uploads[d])) =>
              all_chunks = <<>> /\ context = ""

\* a blank document ahead of a document that has chunks
C8_Witness ==
    /\ BuildDone
    /\ Len(uploads) = 2
    /\ Blank(HAS_PDF, uploads[1])
    /\ uploads[1].raw # ""
    /\ ~Blank(HAS_PDF, uploads[2])
    /\ context # ""
    /\ Len(PackEntries(context)) = Len(ChunksOf(HAS_PDF, uploads[2]))

Init == InitChunk \/ InitScore \/ InitBuild

Next == NextChunk \/ ScoreCall \/ BuildCall

Spec == Init /\ [][Next]_vars
====
